---- MODULE Spec2Model ----
(***************************************************************************)
(* Survey-module manager: the builder's save session (AddModule.jsx, the   *)
(* version with ID tracking), the two Resource Client drafts               *)
(* (services/api.js and the extended client) and the list view (App.jsx).  *)
(*                                                                         *)
(* Specifications:                                                         *)
(*   Spec, FairSpec  the save session of one AddModule instance            *)
(*   SpecPartial     the same with a partial apiService prop               *)
(*   SpecApp         the same session as App wires it, with navigation     *)
(*   SpecCleanup     handleCleanupDuplicates                               *)
(*   SpecList        loadModules and handleDeleteModule                    *)
(*   SpecPayload     the request bodies of the Resource Client             *)
(*                                                                         *)
(* JavaScript runs one task at a time: a handler runs to its first await   *)
(* on a fetch, and the continuation after the response runs to the next    *)
(* fetch or to the end.  Each such run is one action.                      *)
(***************************************************************************)
EXTENDS Integers, Sequences, FiniteSets, TLC

\* ---- bounds ----
MaxSaves == 3      \* save requests the widget raises in one session
MaxId == 3         \* identifiers the backend can assign
MaxModules == 3    \* modules loaded in the list view
MaxTime == 2       \* distinct timestamps

\* ---- values ----
NoId == 0                       \* null / undefined identifier
Ids == 1..MaxId

\* A survey document: the ordered list of its <<key, value>> members.
EmptyJson == << >>
DefaultJson == << <<"pages", "P0">> >>
TitledJson == << <<"title", "T">>, <<"pages", "P0">> >>
Docs == {EmptyJson, DefaultJson, TitledJson}

Clients == {"services_api", "part_000"}

\* Module records of the list view: [id, name, updatedAt, createdAt].
NoName == "<undefined>"         \* the record has no name member
NoTime == 0                     \* the record has no such timestamp member
Names == {"A", "Unnamed", NoName}
Times == 1..MaxTime

\* JSON.stringify of a document: the token string "{" k ":" v "," ... "}".
RECURSIVE Members(_)
Members(d) ==
  IF Len(d) = 0 THEN << >>
  ELSE IF Len(d) = 1 THEN << d[1][1], ":", d[1][2] >>
  ELSE << d[1][1], ":", d[1][2], "," >> \o Members(Tail(d))

Stringify(d) == <<"{">> \o Members(d) \o <<"}">>

\* Object.keys(surveyJson).length
KeyCount(d) == Len(d)

VARIABLES
  hasApi,              \* props.apiService?.createSurvey is supplied
  hasUpdate,           \* props.apiService?.updateSurvey is supplied
  client,              \* which Resource Client draft is wired in
  creator,             \* the SurveyCreator instance exists
  currentModuleId,     \* React state currentModuleId
  closureModuleId,     \* currentModuleId as seen by saveSurveyFunc's closure
  doc,                 \* instance.JSON (initialJsonRef before the instance exists)
  lastSavedContentRef,
  isSavingRef,
  manualSaveRef,
  saveStatus,
  saveNo,              \* the widget's save sequence number
  acks,                \* acks[n]: the values callback(n, ..) was invoked with
  procs,               \* suspended saveSurveyFunc activations
  net,                 \* outstanding HTTP requests of the session
  calls,               \* history: createSurvey / updateSurvey calls made
  runStart,            \* history: Len(calls) at the last edit or manual save
  fate,                \* history: how save request n left saveSurveyFunc
  lookup,              \* history: how the GET of the latest call was answered
  backend,             \* ids the backend holds
  nextId,              \* next id the backend assigns
  \* ---- list view (App.jsx) ----
  modules,             \* React state modules
  loading,             \* React state loading
  loads,               \* outstanding loadModules calls
  cleanup,             \* the running handleCleanupDuplicates onOk, or its result
  currentView,         \* React state currentView: "table" or "builder"
  listNet,             \* outstanding requests of the list view, in issue order
  notice,              \* the last message.success / message.error shown
  reloaded,            \* history: ids whose post-delete reload was displayed
  loadTimers,          \* pending setTimeout(loadModules, 1000) of handleSave
  viewMode,            \* React state viewMode: "edit" or "view"
  \* ---- builder props and timers ----
  hasOnSave,           \* typeof props.onSave === "function"
  listener,            \* the keydown handler is registered on document
  onSaveTimers,        \* pending setTimeout(() => onSave(result), 1000)
  statusTimers,        \* pending setTimeout(() => setSaveStatus(''), ..)
  \* ---- Resource Client payloads ----
  rc                   \* a Resource Client call and the body it sent

sessVars == << hasApi, hasUpdate, client, creator, currentModuleId, closureModuleId, doc,
               lastSavedContentRef, isSavingRef, manualSaveRef, saveStatus,
               saveNo, acks, procs, net, calls, runStart, fate, lookup,
               backend, nextId, hasOnSave, listener, onSaveTimers,
               statusTimers >>
viewVars == << currentView, listNet, notice, reloaded, loadTimers, rc,
              viewMode >>
listVars == << modules, loading, loads, cleanup, viewVars >>
vars == << sessVars, listVars >>

\* Props and mount state, which no step of the save procedure changes.
cfgVars == << hasApi, hasUpdate, client, creator, hasOnSave, listener >>

\* ---------------------------------------------------------------------------
\* Builder Adapter: AddModule.jsx, saveSurveyFunc
\* ---------------------------------------------------------------------------

\* callback(saveNo, ok)
Ack(n, ok) == acks' = [acks EXCEPT ![n] = Append(@, ok)]

\* The creator effect runs again after every render that changed a dependency,
\* but builds the instance (and with it saveSurveyFunc's closure) only while
\* there is no creator: the closure keeps the currentModuleId of that render.
EffectClosure(hasCreator, closureId, renderedId) ==
  IF ~hasCreator THEN renderedId ELSE closureId

\* Mutant: the concurrency guard is missing.
SaveInProgress_off == FALSE

\* if (isSavingRef.current)
SaveInProgress == isSavingRef

\* Mutant: the unchanged-content check is missing.
ContentUnchanged_off(currentContent, manual) == FALSE

\* currentContent === lastSavedContentRef.current && !manualSaveRef.current
ContentUnchanged(currentContent, manual) ==
  currentContent = lastSavedContentRef /\ ~manual

\* Mutant: the document is not validated.
IsEmptyDocument_off(surveyJson) == FALSE

\* !surveyJson || Object.keys(surveyJson).length === 0
IsEmptyDocument(surveyJson) == KeyCount(surveyJson) = 0

\* Mutant: no finally block, the guard set on entry stays.
FinallyValue_kept == TRUE

\* finally { isSavingRef.current = false }
FinallyValue == FALSE

\* Mutant: the catch block records the content as saved.
FailNow_marksSaved(n, manual, msg) ==
  /\ saveStatus' = msg
  /\ Ack(n, FALSE)
  /\ isSavingRef' = FinallyValue
  /\ manualSaveRef' = manual
  /\ fate' = [fate EXCEPT ![n] = "failed"]
  /\ lastSavedContentRef' = Stringify(doc)
  /\ statusTimers' = statusTimers + 1
  /\ UNCHANGED << currentModuleId, closureModuleId, procs, net, calls, lookup,
                  onSaveTimers >>

\* The catch block and the finally block of an activation that never suspended.
FailNow(n, manual, msg) ==
  /\ saveStatus' = msg
  /\ Ack(n, FALSE)
  /\ isSavingRef' = FinallyValue
  /\ manualSaveRef' = manual
  /\ fate' = [fate EXCEPT ![n] = "failed"]
  /\ statusTimers' = statusTimers + 1
  /\ UNCHANGED << currentModuleId, closureModuleId, lastSavedContentRef,
                  procs, net, calls, lookup, onSaveTimers >>

\* Mutant: the early returns report a failure.
SkipSave_nack(n, manual) ==
  /\ Ack(n, FALSE)
  /\ manualSaveRef' = manual
  /\ fate' = [fate EXCEPT ![n] = "skipped"]
  /\ UNCHANGED << currentModuleId, closureModuleId, lastSavedContentRef,
                  isSavingRef, saveStatus, procs, net, calls, lookup,
                  onSaveTimers, statusTimers >>

\* The two early returns: callback(saveNo, true); return
SkipSave(n, manual) ==
  /\ Ack(n, TRUE)
  /\ manualSaveRef' = manual
  /\ fate' = [fate EXCEPT ![n] = "skipped"]
  /\ UNCHANGED << currentModuleId, closureModuleId, lastSavedContentRef,
                  isSavingRef, saveStatus, procs, net, calls, lookup,
                  onSaveTimers, statusTimers >>

\* apiService.updateSurvey(currentModuleId, {surveyJson}) up to its first fetch:
\* both clients start with GET /modules/{id}.
StartUpdate(n, manual, gesture) ==
  /\ isSavingRef' = TRUE
  /\ saveStatus' = "Saving..."
  /\ manualSaveRef' = manual
  /\ net' = net \cup {[no |-> n, method |-> "GET", id |-> closureModuleId,
                       body |-> << >>]}
  /\ procs' = procs \cup {[no |-> n, content |-> Stringify(doc), json |-> doc,
                           branch |-> "update", id |-> closureModuleId,
                           call |-> Len(calls) + 1, gesture |-> gesture]}
  /\ calls' = Append(calls, [op |-> "update", id |-> closureModuleId, no |-> n,
                             outcome |-> "pending", rid |-> NoId,
                             via |-> "GET"])
  /\ lookup' = "none"
  /\ fate' = [fate EXCEPT ![n] = "running"]
  /\ UNCHANGED << currentModuleId, closureModuleId, lastSavedContentRef,
                  acks, onSaveTimers, statusTimers >>

\* apiService.createSurvey({name, description, status, surveyJson}) up to its
\* fetch: POST /modules.
StartCreate(n, manual, gesture) ==
  /\ isSavingRef' = TRUE
  /\ saveStatus' = "Saving..."
  /\ manualSaveRef' = manual
  /\ net' = net \cup {[no |-> n, method |-> "POST", id |-> NoId, body |-> doc]}
  /\ procs' = procs \cup {[no |-> n, content |-> Stringify(doc), json |-> doc,
                           branch |-> "create", id |-> NoId,
                           call |-> Len(calls) + 1, gesture |-> gesture]}
  /\ calls' = Append(calls, [op |-> "create", id |-> NoId, no |-> n,
                             outcome |-> "pending", rid |-> NoId,
                             via |-> "POST"])
  /\ lookup' = "none"
  /\ fate' = [fate EXCEPT ![n] = "running"]
  /\ UNCHANGED << currentModuleId, closureModuleId, lastSavedContentRef,
                  acks, onSaveTimers, statusTimers >>

\* instance.saveSurveyFunc(saveNo, callback), run to its first suspension or
\* to its end; manual is manualSaveRef.current on entry, gesture tells whether
\* handleKeyDown raised the request (history, kept with the activation).
SaveSurveyFunc(n, manual, gesture) ==
  IF SaveInProgress THEN SkipSave(n, manual)
  ELSE IF ContentUnchanged(Stringify(doc), manual) THEN SkipSave(n, manual)
  ELSE IF IsEmptyDocument(doc)
         THEN FailNow(n, manual, "Save failed: Survey data is empty")
  ELSE IF closureModuleId # NoId /\ hasUpdate
         THEN StartUpdate(n, manual, gesture)
  ELSE IF hasApi THEN StartCreate(n, manual, gesture)
  ELSE FailNow(n, manual, "Save failed: No API service available")

\* Mutant: the content at the completion of the request is recorded as saved.
Succeed_marksCurrent(p, rid, msg, storeId) ==
  /\ currentModuleId' = IF storeId /\ rid # NoId THEN rid ELSE currentModuleId
  /\ closureModuleId' = EffectClosure(creator, closureModuleId, currentModuleId')
  /\ saveStatus' = msg
  /\ lastSavedContentRef' = Stringify(doc)
  /\ Ack(p.no, TRUE)
  /\ onSaveTimers' = IF manualSaveRef /\ hasOnSave THEN onSaveTimers + 1
                                                    ELSE onSaveTimers
  /\ statusTimers' = statusTimers + 1
  /\ manualSaveRef' = FALSE
  /\ isSavingRef' = FinallyValue
  /\ procs' = procs \ {p}
  /\ calls' = [calls EXCEPT ![p.call].outcome = "ok", ![p.call].rid = rid]
  /\ fate' = [fate EXCEPT ![p.no] = "persisted"]

\* The rest of the try block after the awaited call returned `rid`, then finally.
\* storeId: the create branch, which calls setCurrentModuleId(result.id).
Succeed(p, rid, msg, storeId) ==
  /\ currentModuleId' = IF storeId /\ rid # NoId THEN rid ELSE currentModuleId
  /\ closureModuleId' = EffectClosure(creator, closureModuleId, currentModuleId')
  /\ saveStatus' = msg
  /\ lastSavedContentRef' = p.content
  /\ Ack(p.no, TRUE)
  /\ onSaveTimers' = IF manualSaveRef /\ hasOnSave THEN onSaveTimers + 1
                                                    ELSE onSaveTimers
  /\ statusTimers' = statusTimers + 1
  /\ manualSaveRef' = FALSE
  /\ isSavingRef' = FinallyValue
  /\ procs' = procs \ {p}
  /\ calls' = [calls EXCEPT ![p.call].outcome = "ok", ![p.call].rid = rid]
  /\ fate' = [fate EXCEPT ![p.no] = "persisted"]

\* Mutant: the catch block does not invoke the callback.
Fail_silent(p) ==
  /\ saveStatus' = "Save failed: request failed"
  /\ isSavingRef' = FinallyValue
  /\ procs' = procs \ {p}
  /\ calls' = [calls EXCEPT ![p.call].outcome = "fail"]
  /\ fate' = [fate EXCEPT ![p.no] = "failed"]
  /\ statusTimers' = statusTimers + 1
  /\ UNCHANGED << currentModuleId, closureModuleId, lastSavedContentRef,
                  manualSaveRef, acks, onSaveTimers >>

\* The catch block after the awaited call rejected, then finally.
Fail(p) ==
  /\ saveStatus' = "Save failed: request failed"
  /\ Ack(p.no, FALSE)
  /\ isSavingRef' = FinallyValue
  /\ procs' = procs \ {p}
  /\ calls' = [calls EXCEPT ![p.call].outcome = "fail"]
  /\ fate' = [fate EXCEPT ![p.no] = "failed"]
  /\ statusTimers' = statusTimers + 1
  /\ UNCHANGED << currentModuleId, closureModuleId, lastSavedContentRef,
                  manualSaveRef, onSaveTimers >>

\* The activation that awaits request r.
ProcOf(r) == CHOOSE p \in procs : p.no = r.no

\* useEffect(() => { if (!creator) { ... setCreator(instance) } })
Mount ==
  /\ ~creator
  /\ creator' = TRUE
  /\ closureModuleId' = EffectClosure(creator, closureModuleId, currentModuleId)
  /\ lastSavedContentRef' = Stringify(doc)
  /\ listener' = TRUE
  /\ UNCHANGED << hasApi, hasUpdate, client, hasOnSave, currentModuleId, doc, isSavingRef,
                  manualSaveRef, saveStatus, saveNo, acks, procs, net, calls,
                  runStart, fate, lookup, backend, nextId, onSaveTimers, statusTimers,
                  listVars >>

\* The user edits the survey in the widget.
Edit(d) ==
  /\ creator
  /\ currentView = "builder"
  /\ d # doc
  /\ doc' = d
  /\ runStart' = Len(calls)
  /\ UNCHANGED << cfgVars, currentModuleId, closureModuleId,
                  lastSavedContentRef, isSavingRef, manualSaveRef, saveStatus,
                  saveNo, acks, procs, net, calls, fate, lookup, backend,
                  nextId, onSaveTimers, statusTimers, listVars >>

\* The widget's debounced autosave: saveSurveyFunc(++saveNo, callback).
AutoSave ==
  /\ creator
  /\ saveNo < MaxSaves
  /\ saveNo' = saveNo + 1
  /\ SaveSurveyFunc(saveNo + 1, manualSaveRef, FALSE)
  /\ UNCHANGED << cfgVars, doc, runStart, backend, nextId, listVars >>

\* handleKeyDown (Ctrl+S): manualSaveRef.current = true; instance.doSave()
ManualSave ==
  /\ creator
  /\ listener
  /\ saveNo < MaxSaves
  /\ saveNo' = saveNo + 1
  /\ SaveSurveyFunc(saveNo + 1, TRUE, TRUE)
  /\ runStart' = Len(calls')
  /\ UNCHANGED << cfgVars, doc, backend, nextId, listVars >>

\* ---------------------------------------------------------------------------
\* Resource Client (services/api.js and the extended draft) and the backend
\* ---------------------------------------------------------------------------

\* updateModule's catch around getModule: the extended client creates the
\* module instead; services/api.js lets getModule's error propagate.
FallsBackToCreate(c) == c = "part_000"

\* GET /modules/{id} answered 200: both clients go on with PUT /modules/{id}.
GetOk(r) ==
  /\ r \in net /\ r.method = "GET"
  /\ r.id \in backend
  /\ net' = (net \ {r}) \cup {[no |-> r.no, method |-> "PUT", id |-> r.id,
                               body |-> ProcOf(r).json]}
  /\ calls' = [calls EXCEPT ![ProcOf(r).call].via = "PUT"]
  /\ lookup' = "ok"
  /\ UNCHANGED << cfgVars, currentModuleId, closureModuleId, doc,
                  lastSavedContentRef, isSavingRef, manualSaveRef, saveStatus,
                  saveNo, acks, procs, runStart, fate, backend, nextId,
                  onSaveTimers, statusTimers, listVars >>

\* GET /modules/{id} answered 404 (kind "notfound") or failed otherwise.
GetFailed(r, kind) ==
  /\ r \in net /\ r.method = "GET"
  /\ kind = "notfound" => r.id \notin backend
  /\ lookup' = kind
  /\ IF FallsBackToCreate(client)
       THEN /\ net' = (net \ {r}) \cup {[no |-> r.no, method |-> "POST",
                                         id |-> NoId, body |-> ProcOf(r).json]}
            /\ calls' = [calls EXCEPT ![ProcOf(r).call].via = "POST"]
            /\ UNCHANGED << currentModuleId, closureModuleId,
                            lastSavedContentRef, isSavingRef, manualSaveRef,
                            saveStatus, acks, procs, fate, onSaveTimers, statusTimers >>
       ELSE /\ net' = net \ {r}
            /\ Fail(ProcOf(r))
  /\ UNCHANGED << cfgVars, doc, saveNo, runStart, backend, nextId, listVars >>

\* PUT /modules/{id} answered 200: updateSurvey returns the stored module.
PutOk(r) ==
  /\ r \in net /\ r.method = "PUT"
  /\ r.id \in backend
  /\ net' = net \ {r}
  /\ Succeed(ProcOf(r), r.id, "Updated successfully!", FALSE)
  /\ UNCHANGED lookup
  /\ UNCHANGED << cfgVars, doc, saveNo, runStart, backend, nextId, listVars >>

\* PUT /modules/{id} answered 404 or failed otherwise.
PutFailed(r, kind) ==
  /\ r \in net /\ r.method = "PUT"
  /\ kind = "notfound" => r.id \notin backend
  /\ net' = net \ {r}
  /\ Fail(ProcOf(r))
  /\ UNCHANGED lookup
  /\ UNCHANGED << cfgVars, doc, saveNo, runStart, backend, nextId, listVars >>

\* POST /modules answered 201: the backend assigns the id.  The create branch
\* stores result.id; the update branch (the fallback of updateModule) does not.
PostOk(r) ==
  /\ r \in net /\ r.method = "POST"
  /\ nextId <= MaxId
  /\ backend' = backend \cup {nextId}
  /\ nextId' = nextId + 1
  /\ net' = net \ {r}
  /\ IF ProcOf(r).branch = "create"
       THEN Succeed(ProcOf(r), nextId, "Created successfully!", TRUE)
       ELSE Succeed(ProcOf(r), nextId, "Updated successfully!", FALSE)
  /\ UNCHANGED lookup
  /\ UNCHANGED << cfgVars, doc, saveNo, runStart, listVars >>

\* POST /modules failed.
PostFailed(r) ==
  /\ r \in net /\ r.method = "POST"
  /\ net' = net \ {r}
  /\ Fail(ProcOf(r))
  /\ UNCHANGED lookup
  /\ UNCHANGED << cfgVars, doc, saveNo, runStart, backend, nextId, listVars >>

\* Another client of the backend deletes the module the session holds (the
\* session never refers to any other module).
BackendRemove(id) ==
  /\ id \in backend
  /\ id \in {currentModuleId, closureModuleId}
  /\ backend' = backend \ {id}
  /\ UNCHANGED << cfgVars, currentModuleId, closureModuleId, doc,
                  lastSavedContentRef, isSavingRef, manualSaveRef, saveStatus,
                  saveNo, acks, procs, net, calls, runStart, fate, lookup,
                  nextId, onSaveTimers, statusTimers, listVars >>

Kinds == {"notfound", "error"}

\* The builder view right after AddModule's first render, opened for a new
\* module or for module 1.
Init ==
  /\ hasApi \in BOOLEAN
  /\ hasUpdate = hasApi
  /\ client \in Clients
  /\ creator = FALSE
  /\ currentModuleId \in {NoId, 1}
  /\ closureModuleId = NoId
  /\ doc \in Docs
  /\ lastSavedContentRef = << >>
  /\ isSavingRef = FALSE
  /\ manualSaveRef = FALSE
  /\ saveStatus = ""
  /\ saveNo = 0
  /\ acks = [n \in 1..MaxSaves |-> << >>]
  /\ fate = [n \in 1..MaxSaves |-> "none"]
  /\ lookup = "none"
  /\ procs = {}
  /\ net = {}
  /\ calls = << >>
  /\ runStart = 0
  /\ backend = IF currentModuleId = NoId THEN {} ELSE {currentModuleId}
  /\ nextId = IF currentModuleId = NoId THEN 1 ELSE 2
  /\ modules = << >>
  /\ loading = FALSE
  /\ loads = 0
  /\ cleanup = [pc |-> "idle"]
  /\ currentView = "builder"
  /\ listNet = << >>
  /\ notice = ""
  /\ reloaded = {}
  /\ loadTimers = 0
  /\ viewMode = "edit"
  /\ hasOnSave = FALSE
  /\ listener = FALSE
  /\ onSaveTimers = 0
  /\ statusTimers = 0
  /\ rc = [op |-> "none"]

Next ==
  \/ Mount
  \/ \E d \in Docs : Edit(d)
  \/ AutoSave
  \/ ManualSave
  \/ \E r \in net : GetOk(r)
  \/ \E r \in net, k \in Kinds : GetFailed(r, k)
  \/ \E r \in net : PutOk(r)
  \/ \E r \in net, k \in Kinds : PutFailed(r, k)
  \/ \E r \in net : PostOk(r)
  \/ \E r \in net : PostFailed(r)
  \/ \E id \in Ids : BackendRemove(id)

Spec == Init /\ [][Next]_vars

\* Every outstanding request is eventually answered (the transport resolves or
\* rejects every fetch).
Responds ==
  \E r \in net :
    \/ GetOk(r) \/ PutOk(r) \/ PostOk(r) \/ PostFailed(r)
    \/ \E k \in Kinds : GetFailed(r, k) \/ PutFailed(r, k)

FairSpec == Spec /\ WF_vars(Responds)

\* The same session when props.apiService may supply only one of createSurvey
\* and updateSurvey (saveSurveyFunc tests each with ?.).
InitPartial ==
  /\ hasApi \in BOOLEAN
  /\ hasUpdate \in BOOLEAN
  /\ client \in Clients
  /\ creator = FALSE
  /\ currentModuleId \in {NoId, 1}
  /\ closureModuleId = NoId
  /\ doc \in Docs
  /\ lastSavedContentRef = << >>
  /\ isSavingRef = FALSE
  /\ manualSaveRef = FALSE
  /\ saveStatus = ""
  /\ saveNo = 0
  /\ acks = [n \in 1..MaxSaves |-> << >>]
  /\ fate = [n \in 1..MaxSaves |-> "none"]
  /\ lookup = "none"
  /\ procs = {}
  /\ net = {}
  /\ calls = << >>
  /\ runStart = 0
  /\ backend = IF currentModuleId = NoId THEN {} ELSE {currentModuleId}
  /\ nextId = IF currentModuleId = NoId THEN 1 ELSE 2
  /\ modules = << >>
  /\ loading = FALSE
  /\ loads = 0
  /\ cleanup = [pc |-> "idle"]
  /\ currentView = "builder"
  /\ listNet = << >>
  /\ notice = ""
  /\ reloaded = {}
  /\ loadTimers = 0
  /\ viewMode = "edit"
  /\ hasOnSave = FALSE
  /\ listener = FALSE
  /\ onSaveTimers = 0
  /\ statusTimers = 0
  /\ rc = [op |-> "none"]

SpecPartial == InitPartial /\ [][Next]_vars

\* ---------------------------------------------------------------------------
\* Properties of the save session
\* ---------------------------------------------------------------------------

CallIdx == 1..Len(calls)
RunIdx == (runStart + 1)..Len(calls)

\* C1: once a create has succeeded and returned an id, every later call of the
\* session is an update with that id, never a create.
C1_UpdateAfterCreate ==
  \A i, j \in CallIdx :
    (i < j /\ calls[i].op = "create" /\ calls[i].outcome = "ok"
           /\ calls[i].rid # NoId)
      => (calls[j].op = "update" /\ calls[j].id = calls[i].rid)

\* C2: at most one persistence request of the session is outstanding, at most
\* one activation of the save procedure is suspended, and only the latest call
\* can be unresolved (calls are totally ordered, never interleaved).
C2_OneOutstanding ==
  /\ Cardinality(net) <= 1
  /\ Cardinality(procs) <= 1
  /\ \A i \in CallIdx : calls[i].outcome = "pending" => i = Len(calls)

\* A trigger arrived while an update's PUT was outstanding.
C2_Witness ==
  \E r \in net : r.method = "PUT" /\ \E n \in 1..MaxSaves : n > r.no /\ fate[n] = "skipped"

\* C3: an update against an id the backend no longer has ends in a create, is
\* reported as a success, and the created id becomes the session's id.
C3_FallbackIdAdopted ==
  (Len(calls) > 0 /\ calls[Len(calls)].op = "update" /\ lookup = "notfound")
    => /\ calls[Len(calls)].via = "POST"
       /\ calls[Len(calls)].outcome = "ok"
            => /\ currentModuleId = calls[Len(calls)].rid
               /\ closureModuleId = calls[Len(calls)].rid

\* C4 as claimed: a run of autosave triggers with unchanged content issues at
\* most one call, whatever its outcome.
C4_AtMostOneCall == Len(calls) - runStart <= 1

\* C4 amended: in such a run no call is issued after one that succeeded; every
\* call of the run but the last one failed.
C4_NoCallAfterSuccess ==
  \A i \in RunIdx : i < Len(calls) => calls[i].outcome = "fail"

\* A run in which a call failed, the retry succeeded and a later trigger was
\* short-circuited.
C4_Witness ==
  /\ Len(calls) >= runStart + 2
  /\ calls[Len(calls)].outcome = "ok"
  /\ \E n \in 1..MaxSaves : n > calls[Len(calls)].no /\ fate[n] = "skipped"

\* C5: a trigger that arrives while a save is in flight sends no request,
\* leaves exactly one request outstanding and is acknowledged with true.
C5_OverlapAcked ==
  [][(isSavingRef /\ saveNo' = saveNo + 1)
       => (net' = net /\ Cardinality(net') = 1 /\ acks'[saveNo'] = <<TRUE>>)]_vars

\* The second of two overlapping triggers has been acknowledged while the
\* first one's request is still outstanding.
C5_Witness ==
  /\ isSavingRef
  /\ \E p \in procs : acks[p.no] = << >> /\ p.no < saveNo /\ acks[saveNo] = <<TRUE>>

\* C6 as claimed: every save attempt with the empty document fails with
\* EmptyDocument and sends nothing, in every session state.
C6_EmptyAlwaysFails ==
  [][(saveNo' = saveNo + 1 /\ doc = EmptyJson)
       => /\ net' = net
          /\ acks'[saveNo'] = <<FALSE>>
          /\ saveStatus' = "Save failed: Survey data is empty"]_vars

\* C6 amended: a save attempt with the empty document never sends a request,
\* and it fails with EmptyDocument whenever it is not short-circuited (no save
\* in flight, and the content differs from lastPersistedContent or the manual
\* flag is set).
C6_EmptyFailsPastGuards ==
  [][(saveNo' = saveNo + 1 /\ doc = EmptyJson)
       => /\ net' = net
          /\ (~isSavingRef /\ (Stringify(doc) # lastSavedContentRef \/ manualSaveRef'))
               => /\ acks'[saveNo'] = <<FALSE>>
                  /\ saveStatus' = "Save failed: Survey data is empty"
                  /\ ~isSavingRef']_vars

\* An attempt with the empty document has just failed.
C6_Witness ==
  /\ doc = EmptyJson
  /\ saveNo > 0 /\ acks[saveNo] = <<FALSE>>
  /\ saveStatus = "Save failed: Survey data is empty"

\* C7: the guard is held exactly while an activation of the save procedure is
\* between acquiring it and completing, and it is eventually released.
C7_GuardReleased ==
  /\ [](isSavingRef <=> procs # {})
  /\ (isSavingRef ~> ~isSavingRef)

\* Attempts have ended by a backend failure and by a validation failure.
C7_Witness ==
  /\ ~isSavingRef
  /\ \E i \in CallIdx : calls[i].outcome = "fail"
  /\ \E n \in 1..MaxSaves : fate[n] = "failed" /\ \A i \in CallIdx : calls[i].no # n

\* C8: the callback of save request n is invoked exactly once: not before the
\* request is raised or while it is running, with true when it was skipped or
\* persisted, with false when it failed; and every raised request is answered.
C8_AckedOnce ==
  /\ [](\A n \in 1..MaxSaves :
          /\ fate[n] \in {"none", "running"} => acks[n] = << >>
          /\ fate[n] \in {"skipped", "persisted"} => acks[n] = <<TRUE>>
          /\ fate[n] = "failed" => acks[n] = <<FALSE>>
          /\ n <= saveNo <=> fate[n] # "none")
  /\ \A n \in 1..MaxSaves : (saveNo >= n) ~> (Len(acks[n]) = 1)

\* Requests have been answered each way: skipped, persisted and failed.
C8_Witness ==
  /\ \E n \in 1..MaxSaves : fate[n] = "skipped" /\ acks[n] = <<TRUE>>
  /\ \E n \in 1..MaxSaves : fate[n] = "persisted" /\ acks[n] = <<TRUE>>
  /\ \E n \in 1..MaxSaves : fate[n] = "failed" /\ acks[n] = <<FALSE>>

\* C14: the session's moduleId changes only from absent to a value, in the
\* step in which a create succeeds and returns that id; once held it is never
\* assigned again and never becomes absent.
C14_PersistedOnce ==
  [][currentModuleId' # currentModuleId
       => /\ currentModuleId = NoId
          /\ currentModuleId' # NoId
          /\ \E p \in procs :
               /\ p.branch = "create" /\ p \notin procs'
               /\ calls'[p.call].outcome = "ok"
               /\ calls'[p.call].rid = currentModuleId']_vars

\* The messages the catch block displays.
FailedStatus ==
  {"Save failed: Survey data is empty", "Save failed: No API service available",
   "Save failed: request failed"}

\* Save request n fails in this step.
FailsNow(n) == fate[n] # "failed" /\ fate'[n] = "failed"

\* C15: the step in which a save attempt fails keeps moduleId (the state and
\* the closure's copy), lastPersistedContent and the manual flag as they were,
\* sends nothing and schedules no navigation; it displays a failure message
\* and leaves the guard released.  No step taken while the attempt was
\* suspended changed moduleId or lastPersistedContent either.
C15_FailureKeepsSession ==
  /\ [][(\E n \in 1..MaxSaves : FailsNow(n))
          => /\ currentModuleId' = currentModuleId
             /\ closureModuleId' = closureModuleId
             /\ lastSavedContentRef' = lastSavedContentRef
             /\ manualSaveRef => manualSaveRef'
             /\ saveNo' = saveNo => manualSaveRef' = manualSaveRef
             /\ onSaveTimers' = onSaveTimers
             /\ net' \subseteq net
             /\ saveStatus' \in FailedStatus
             /\ ~isSavingRef']_vars
  /\ [][(procs # {} /\ procs' # {})
          => /\ currentModuleId' = currentModuleId
             /\ lastSavedContentRef' = lastSavedContentRef]_vars

\* An update of a held module failed at the backend while the document differs
\* from the last persisted content.
C15_Witness ==
  /\ currentModuleId # NoId
  /\ Len(calls) > 0 /\ calls[Len(calls)].outcome = "fail"
  /\ calls[Len(calls)].op = "update"
  /\ lastSavedContentRef # Stringify(doc)
  /\ saveStatus = "Save failed: request failed"
  /\ ~isSavingRef

\* C16: when the lookup of an update is answered NotFound, the client goes on
\* with a create, and the call returns the created module (a new id) whenever
\* that create succeeds.
C16_NotFoundFallsBack ==
  (Len(calls) > 0 /\ calls[Len(calls)].op = "update" /\ lookup = "notfound")
    => /\ calls[Len(calls)].via = "POST"
       /\ calls[Len(calls)].outcome # "fail" => calls[Len(calls)].id \notin backend
       /\ calls[Len(calls)].outcome = "ok"
            => calls[Len(calls)].rid \notin {NoId, calls[Len(calls)].id}

\* C17: a call one of whose requests was answered with a non-success status
\* other than NotFound has failed: it sends no further request and never
\* reports success.
C17_NonSuccessFails ==
  (Len(calls) > 0 /\ lookup = "error") => calls[Len(calls)].outcome = "fail"

\* C25: when the lookup GET of an update failed for a reason other than
\* NotFound, the update does not go on with a create: no POST is outstanding
\* for it and none was sent.
C25_ErrorLookupNoCreate ==
  (Len(calls) > 0 /\ calls[Len(calls)].op = "update" /\ lookup = "error")
    => /\ calls[Len(calls)].via # "POST"
       /\ \A r \in net : r.method # "POST"

\* An autosave trigger run in this state gets past the guards and the
\* validation and reaches a persistence call.
WouldSend ==
  /\ ~SaveInProgress
  /\ ~ContentUnchanged(Stringify(doc), manualSaveRef)
  /\ ~IsEmptyDocument(doc)
  /\ (closureModuleId # NoId /\ hasUpdate) \/ hasApi

\* Activation p ends in this step after a later trigger was discarded while it
\* was suspended, and the document is not the one it captured.
EndsWithPendingChange(p) ==
  /\ p \in procs /\ p \notin procs'
  /\ \E n \in 1..MaxSaves : n > p.no /\ fate[n] = "skipped"
  /\ Stringify(doc) # p.content

\* C21 as claimed: when the request that made a trigger be discarded ends, the
\* pending content differs from lastPersistedContent, and a trigger run then
\* issues a create/update.
C21_DiscardedChangeSent ==
  [][\A p \in procs : EndsWithPendingChange(p) => WouldSend']_vars

\* C21 amended: that holds when the pending document is not empty and either
\* the request succeeded (lastPersistedContent becomes the content captured at
\* its start) or the pending content differs from the lastPersistedContent a
\* failure leaves in place; and a trigger run in such a state issues a request
\* carrying the current document.
C21_PendingChangeSent ==
  /\ [][\A p \in procs :
          (/\ EndsWithPendingChange(p)
           /\ ~IsEmptyDocument(doc)
           /\ fate'[p.no] = "persisted" \/ Stringify(doc) # lastSavedContentRef)
            => /\ WouldSend'
               /\ lastSavedContentRef' =
                    IF fate'[p.no] = "persisted" THEN p.content
                                                 ELSE lastSavedContentRef]_vars
  /\ [][(saveNo' = saveNo + 1 /\ WouldSend)
          => \E q \in procs' :
               /\ q.no = saveNo' /\ q.json = doc /\ q.content = Stringify(doc)
               /\ \E r \in net' \ net : r.no = saveNo']_vars

\* The third trigger sent the document that was pending when the second one
\* was acknowledged without a request.
C21_Witness ==
  \E q \in procs :
    /\ q.no = 3 /\ q.json = doc /\ q.content # lastSavedContentRef
    /\ fate[1] = "persisted" /\ fate[2] = "skipped"
    /\ acks[2] = <<TRUE>>
    /\ \E r \in net : r.no = 3

\* The session has no persistence operation for the branch its state calls
\* for: update when moduleId is held, create otherwise.
NoCapability == IF currentModuleId # NoId THEN ~hasUpdate ELSE ~hasApi

\* C22: a save attempt that gets past the guards and the validation while the
\* operation its branch needs was not supplied fails with "No API service
\* available": nothing is sent, the widget is told false, a failure is
\* displayed and the guard is released.
C22_NoCapabilityFails ==
  [][(/\ saveNo' = saveNo + 1
      /\ ~SaveInProgress
      /\ ~ContentUnchanged(Stringify(doc), manualSaveRef)
      /\ ~IsEmptyDocument(doc)
      /\ NoCapability)
       => /\ net' = net
          /\ acks'[saveNo'] = <<FALSE>>
          /\ saveStatus' = "Save failed: No API service available"
          /\ ~isSavingRef']_vars

\* ---------------------------------------------------------------------------
\* Module List View: App.jsx, handleCleanupDuplicates
\* ---------------------------------------------------------------------------

\* JavaScript truthiness of a name (undefined and "" are falsy).
FalsyName(name) == name \in {NoName, ""}

\* const name = module.name || 'Unnamed'
GroupKey(m) == IF FalsyName(m.name) THEN "Unnamed" ELSE m.name

\* Object.entries(moduleGroups): the keys in the order they were first added.
RECURSIVE GroupKeys(_)
GroupKeys(ms) ==
  IF Len(ms) = 0 THEN << >>
  ELSE LET init == GroupKeys(SubSeq(ms, 1, Len(ms) - 1))
           k == GroupKey(ms[Len(ms)])
       IN IF \E i \in 1..Len(init) : init[i] = k THEN init ELSE Append(init, k)

\* moduleGroups[name]: the modules of that key, in list order.
RECURSIVE GroupOf(_, _)
GroupOf(ms, k) ==
  IF Len(ms) = 0 THEN << >>
  ELSE IF GroupKey(Head(ms)) = k THEN <<Head(ms)>> \o GroupOf(Tail(ms), k)
  ELSE GroupOf(Tail(ms), k)

\* new Date(m.updatedAt || m.createdAt), as a number
SortKey(m) == IF m.updatedAt # NoTime THEN m.updatedAt ELSE m.createdAt

\* Mutant: the comparator is reversed (oldest first).
Precedes_oldestFirst(a, b) == SortKey(a) < SortKey(b)

\* The comparator (a, b) => new Date(b..) - new Date(a..) is negative: a sorts
\* before b.
Precedes(a, b) == SortKey(b) - SortKey(a) < 0

\* group.sort(comparator): a stable sort, as an insertion sort.
RECURSIVE Insert(_, _)
Insert(sorted, m) ==
  IF Len(sorted) = 0 THEN <<m>>
  ELSE IF Precedes(m, Head(sorted)) THEN <<m>> \o sorted
  ELSE <<Head(sorted)>> \o Insert(Tail(sorted), m)

RECURSIVE Sorted(_)
Sorted(g) ==
  IF Len(g) = 0 THEN << >>
  ELSE Insert(Sorted(SubSeq(g, 1, Len(g) - 1)), g[Len(g)])

\* The modules the two nested loops delete, in order: for every group with
\* more than one member, sorted.slice(1).
RECURSIVE ToDeleteFrom(_, _)
ToDeleteFrom(ms, keys) ==
  IF Len(keys) = 0 THEN << >>
  ELSE LET group == GroupOf(ms, Head(keys))
       IN (IF Len(group) > 1 THEN Tail(Sorted(group)) ELSE << >>)
            \o ToDeleteFrom(ms, Tail(keys))

\* Mutant: only the first group is swept.
ToDelete_firstGroup(ms) ==
  ToDeleteFrom(ms, IF Len(ms) = 0 THEN << >> ELSE <<GroupKey(ms[1])>>)

\* The deletes of the whole sweep, over Object.entries(moduleGroups).
ToDelete(ms) == ToDeleteFrom(ms, GroupKeys(ms))

\* modules.map(m => m.name)
RawNames(ms) == [i \in 1..Len(ms) |-> ms[i].name]

\* new Set(names): the values in insertion order, a value already present
\* (undefined included) is not added again.
RECURSIVE NewSet(_)
NewSet(names) ==
  IF Len(names) = 0 THEN << >>
  ELSE LET init == NewSet(SubSeq(names, 1, Len(names) - 1))
           v == names[Len(names)]
       IN IF \E i \in 1..Len(init) : init[i] = v THEN init ELSE Append(init, v)

\* Mutant: the indicator counts the cleanup's group keys.
HasDuplicates_grouped(ms) == Len(ms) # Len(GroupKeys(ms))

\* hasDuplicates(): names.length !== new Set(names).size
HasDuplicates(ms) == Len(RawNames(ms)) # Len(NewSet(RawNames(ms)))

\* message.success(...); loadModules(); then finally setLoading(false):
\* loadModules runs to its fetch (setLoading(true), GET /modules).
FinishCleanup(c) ==
  /\ cleanup' = [c EXCEPT !.pc = "done", !.reported = c.deletedCount,
                          !.reloads = c.reloads + 1]
  /\ loads' = loads + 1
  /\ loading' = FALSE

\* The next `await apiService.deleteModule(module.id)` of the loops, or their end.
ContinueCleanup(c) ==
  IF Len(c.queue) = 0 THEN FinishCleanup(c)
  ELSE /\ cleanup' = [c EXCEPT !.pc = "deleting", !.current = Head(c.queue).id,
                               !.queue = Tail(c.queue)]
       /\ loading' = TRUE
       /\ UNCHANGED loads

\* Modal.confirm's onOk up to its first await.  The button that opens the
\* dialog is rendered only while hasDuplicates() is true.
ConfirmCleanup ==
  /\ cleanup.pc = "idle"
  /\ HasDuplicates(modules)
  /\ ContinueCleanup([pc |-> "idle", input |-> modules, queue |-> ToDelete(modules),
                      current |-> NoId, log |-> << >>, deletedCount |-> 0,
                      reported |-> 0, reloads |-> 0])
  /\ UNCHANGED << sessVars, modules, viewVars >>

\* DELETE /modules/{id} succeeded: deletedCount++.
DeleteOk ==
  /\ cleanup.pc = "deleting"
  /\ cleanup.current \in backend
  /\ backend' = backend \ {cleanup.current}
  /\ ContinueCleanup([cleanup EXCEPT
                        !.log = Append(@, [id |-> cleanup.current, ok |-> TRUE]),
                        !.deletedCount = @ + 1])
  /\ UNCHANGED << cfgVars, currentModuleId, closureModuleId, doc,
                  lastSavedContentRef, isSavingRef, manualSaveRef, saveStatus,
                  saveNo, acks, procs, net, calls, runStart, fate, lookup,
                  nextId, onSaveTimers, statusTimers, modules, viewVars >>

\* Mutant: a failed deletion leaves the loops through the outer catch.
DeleteFailed_abort ==
  /\ cleanup.pc = "deleting"
  /\ cleanup' = [cleanup EXCEPT
                   !.log = Append(@, [id |-> cleanup.current, ok |-> FALSE]),
                   !.pc = "done"]
  /\ loading' = FALSE
  /\ UNCHANGED << sessVars, modules, loads, viewVars >>

\* DELETE /modules/{id} failed: the inner catch logs it and the loop goes on.
DeleteFailed ==
  /\ cleanup.pc = "deleting"
  /\ ContinueCleanup([cleanup EXCEPT
                        !.log = Append(@, [id |-> cleanup.current, ok |-> FALSE])])
  /\ UNCHANGED << sessVars, modules, viewVars >>

\* The timestamps <<updatedAt, createdAt>> of a stored module: createdAt is
\* always present; updatedAt is absent (services/api.js createModule sets
\* none) or not before createdAt.  createdAt is read only when updatedAt is
\* absent, so with updatedAt present it is the earliest time.
Stamps ==
  { st \in (Times \cup {NoTime}) \X Times : st[1] = NoTime \/ st[2] = 1 }

\* A loaded collection: distinct ids, names and timestamps as given by f.
ModuleList(n, f) ==
  [i \in 1..n |-> [id |-> i, name |-> f[i][1], updatedAt |-> f[i][2][1],
                   createdAt |-> f[i][2][2]]]

InitCleanup ==
  /\ hasApi = TRUE
  /\ hasUpdate = hasApi
  /\ client = "services_api"
  /\ creator = FALSE
  /\ currentModuleId = NoId
  /\ closureModuleId = NoId
  /\ doc = DefaultJson
  /\ lastSavedContentRef = << >>
  /\ isSavingRef = FALSE
  /\ manualSaveRef = FALSE
  /\ saveStatus = ""
  /\ saveNo = 0
  /\ acks = [n \in 1..MaxSaves |-> << >>]
  /\ fate = [n \in 1..MaxSaves |-> "none"]
  /\ lookup = "none"
  /\ procs = {}
  /\ net = {}
  /\ calls = << >>
  /\ runStart = 0
  /\ \E n \in 0..MaxModules :
       \E f \in [1..n -> Names \X Stamps] : modules = ModuleList(n, f)
  /\ backend = {modules[i].id : i \in 1..Len(modules)}
  /\ nextId = Len(modules) + 1
  /\ loading = FALSE
  /\ loads = 0
  /\ cleanup = [pc |-> "idle"]
  /\ currentView = "table"
  /\ listNet = << >>
  /\ notice = ""
  /\ reloaded = {}
  /\ loadTimers = 0
  /\ viewMode = "edit"
  /\ hasOnSave = FALSE
  /\ listener = FALSE
  /\ onSaveTimers = 0
  /\ statusTimers = 0
  /\ rc = [op |-> "none"]

NextCleanup ==
  \/ ConfirmCleanup
  \/ DeleteOk
  \/ DeleteFailed

SpecCleanup == InitCleanup /\ [][NextCleanup]_vars

\* ---------------------------------------------------------------------------
\* Properties of the duplicate cleanup
\* ---------------------------------------------------------------------------

\* The sweep's input (the modules state its closure holds) by position.
InputIdx == 1..Len(cleanup.input)
NameOf(i) ==
  IF cleanup.input[i].name = NoName THEN "Unnamed" ELSE cleanup.input[i].name
StampOf(i) ==
  IF cleanup.input[i].updatedAt = NoTime THEN cleanup.input[i].createdAt
  ELSE cleanup.input[i].updatedAt
Twins(i) == {j \in InputIdx : j # i /\ NameOf(j) = NameOf(i)}
LogIdx == 1..Len(cleanup.log)
Attempted(i) == \E k \in LogIdx : cleanup.log[k].id = cleanup.input[i].id
Removed == {k \in LogIdx : cleanup.log[k].ok}
Duplicates == {i \in InputIdx : \E j \in 1..(i - 1) : NameOf(j) = NameOf(i)}

\* C9: when the sweep is done, a module is deleted only if a module of the
\* same name is kept (so never from a singleton group); a kept module is the
\* only one kept of its name and no module of its name is newer; no delete is
\* issued twice; the reported count is the number of deletes that succeeded.
C9_KeepsNewestPerName ==
  cleanup.pc = "done" =>
    /\ \A i \in InputIdx :
         IF Attempted(i)
           THEN \E j \in Twins(i) : ~Attempted(j)
           ELSE \A j \in Twins(i) : Attempted(j) /\ StampOf(i) >= StampOf(j)
    /\ \A k, l \in LogIdx : cleanup.log[k].id = cleanup.log[l].id => k = l
    /\ cleanup.reported = Cardinality(Removed)

\* The example [{A, t1, id 1}, {A, t2 > t1, id 2}, {B, id 3}], its third module
\* named "Unnamed": the sweep deletes id 1 only and reports 1.
C9_Witness ==
  /\ cleanup.pc = "done"
  /\ Len(cleanup.input) = 3
  /\ cleanup.input[1].name = "A" /\ cleanup.input[2].name = "A"
  /\ cleanup.input[3].name = "Unnamed"
  /\ StampOf(1) < StampOf(2)
  /\ cleanup.log = << [id |-> 1, ok |-> TRUE] >>
  /\ cleanup.reported = 1
  /\ backend = {2, 3}

\* C10: when the sweep is done, a delete has been attempted for every
\* duplicate whatever the outcome of the earlier ones (of two modules of one
\* name at least one was attempted, one attempt per duplicate), the reported
\* count is
\* the number of deletions the backend confirmed (those ids are gone from it),
\* and the reload has been started.
C10_SweepCompletes ==
  cleanup.pc = "done" =>
    /\ \A i \in InputIdx : \A j \in Twins(i) : Attempted(i) \/ Attempted(j)
    /\ Len(cleanup.log) = Cardinality(Duplicates)
    /\ cleanup.reported = Cardinality(Removed)
    /\ \A k \in Removed : cleanup.log[k].id \notin backend
    /\ cleanup.reloads = 1

\* A deletion failed, a later one succeeded, and the reload is under way.
C10_Witness ==
  /\ cleanup.pc = "done"
  /\ \E k, l \in LogIdx : k < l /\ ~cleanup.log[k].ok /\ cleanup.log[l].ok
  /\ cleanup.reported < Len(cleanup.log)
  /\ loads > 0

\* The distinct values of name among the loaded modules, a missing name being
\* one value.
DistinctNames == {modules[i].name : i \in 1..Len(modules)}

\* C23: while no sweep runs, the indicator is true iff the loaded modules have
\* fewer distinct names than there are modules; a sweep is started only from
\* such a collection.
C23_IndicatorCountsNames ==
  IF cleanup.pc = "idle"
    THEN HasDuplicates(modules) <=> Cardinality(DistinctNames) < Len(modules)
    ELSE Cardinality(DistinctNames) < Len(modules)

\* Three modules, two of them without a name and one named "Unnamed": two
\* distinct names, the indicator is shown and the sweep has been started.
C23_Witness ==
  /\ Len(modules) = 3
  /\ Cardinality(DistinctNames) = 2
  /\ {"Unnamed", NoName} \subseteq DistinctNames
  /\ HasDuplicates(modules)
  /\ cleanup.pc = "deleting"

\* C24 as claimed: for the collection on display before a sweep, the indicator
\* is true iff the sweep would issue at least one delete.
C24_IndicatorAgrees ==
  cleanup.pc = "idle" => (HasDuplicates(modules) <=> Len(ToDelete(modules)) > 0)

\* C24 amended: the indicator being true implies that the sweep issues at
\* least one delete (and a sweep that ran did); when the sweep would delete
\* while the indicator is false, two modules with different raw names share a
\* group because one of the names is missing or empty.
C24_IndicatorImpliesDelete ==
  /\ cleanup.pc = "idle" =>
       IF HasDuplicates(modules)
         THEN Len(ToDelete(modules)) > 0
         ELSE Len(ToDelete(modules)) > 0
                => \E i, j \in 1..Len(modules) :
                     /\ modules[i].name # modules[j].name
                     /\ GroupKey(modules[i]) = GroupKey(modules[j])
                     /\ FalsyName(modules[i].name)
  /\ cleanup.pc = "done" => Len(cleanup.log) > 0

\* Two modules named "A" and one without a name: the indicator was shown and
\* the sweep that was started deleted one of the two.
C24_Witness ==
  /\ cleanup.pc = "done"
  /\ HasDuplicates(cleanup.input)
  /\ Len(cleanup.log) = 1
  /\ \E i \in InputIdx : cleanup.input[i].name = NoName
  /\ \E i, j \in InputIdx : i # j /\ cleanup.input[i].name = "A"
                                  /\ cleanup.input[j].name = "A"

\* C26: the loading flag is true whenever a loadModules call is outstanding.
C26_LoadingWhileOutstanding == loads > 0 => loading

\* ---------------------------------------------------------------------------
\* Module List View: App.jsx, loadModules and handleDeleteModule
\* ---------------------------------------------------------------------------

MaxLoads == 2      \* requests of the list view outstanding at one time
MaxRows == 2       \* modules stored when the list view opens

\* A module as GET /modules returns it.
Stored(id) == [id |-> id, name |-> "A", updatedAt |-> NoTime, createdAt |-> 1]

\* The body of a successful GET /modules: the stored modules, by id.
RECURSIVE Listing(_)
Listing(ids) ==
  IF ids = {} THEN << >>
  ELSE LET top == CHOOSE i \in ids : \A j \in ids : j <= i
       IN Append(Listing(ids \ {top}), Stored(top))

\* The ids of the rows the table displays.
DisplayedIds == {modules[i].id : i \in 1..Len(modules)}

\* The ids this view has deleted so far: the list view's backend starts with
\* modules 1..MaxRows and loses modules only through handleDeleteModule.
DeletedIds == (1..MaxRows) \ backend

\* listNet without its i-th request.
Without(reqs, i) == SubSeq(reqs, 1, i - 1) \o SubSeq(reqs, i + 1, Len(reqs))

\* apiService.getModules() up to its first fetch: the extended client asks
\* checkServerHealth first, services/api.js sends GET /modules at once.
\* after: the ids deleted before the request was issued (history).
ListRequest(after) ==
  [kind |-> "list", id |-> NoId,
   stage |-> IF client = "part_000" THEN "health" ELSE "sent",
   data |-> << >>, after |-> after]

\* loadModules() up to its await: setLoading(true), then getModules().
StartLoad(reqs, after) ==
  /\ loading' = TRUE
  /\ loads' = loads + 1
  /\ listNet' = Append(reqs, ListRequest(after))

\* A call of loadModules: the mount effect, handleBackToTable, or the timer of
\* handleSave.
LoadModules ==
  /\ currentView = "table"
  /\ Len(listNet) < MaxLoads
  /\ StartLoad(listNet, DeletedIds)
  /\ UNCHANGED << sessVars, modules, cleanup, currentView, notice, reloaded,
                  loadTimers, rc, viewMode >>

\* checkServerHealth got an ok response: getModules sends GET /modules.
HealthOk(i) ==
  /\ listNet[i].kind = "list" /\ listNet[i].stage = "health"
  /\ listNet' = [listNet EXCEPT ![i].stage = "sent"]
  /\ UNCHANGED << sessVars, modules, loading, loads, cleanup, currentView,
                  notice, reloaded, loadTimers, rc, viewMode >>

\* The backend answers GET /modules with what it stores at that moment.
ListServed(i) ==
  /\ listNet[i].kind = "list" /\ listNet[i].stage = "sent"
  /\ listNet' = [listNet EXCEPT ![i].stage = "answered",
                                ![i].data = Listing(backend)]
  /\ UNCHANGED << sessVars, modules, loading, loads, cleanup, currentView,
                  notice, reloaded, loadTimers, rc, viewMode >>

\* The response reaches loadModules: setModules(data); finally
\* setLoading(false).
LoadOk(i) ==
  /\ listNet[i].kind = "list" /\ listNet[i].stage = "answered"
  /\ modules' = listNet[i].data
  /\ loading' = FALSE
  /\ loads' = loads - 1
  /\ listNet' = Without(listNet, i)
  /\ reloaded' = reloaded \cup listNet[i].after
  /\ UNCHANGED << sessVars, cleanup, currentView, notice, loadTimers, rc, viewMode >>

\* Mutant: a failed load empties the table.
LoadFailed_clears(i) ==
  /\ listNet[i].kind = "list" /\ listNet[i].stage \in {"health", "sent"}
  /\ modules' = << >>
  /\ notice' = "Failed to load modules"
  /\ loading' = FALSE
  /\ loads' = loads - 1
  /\ listNet' = Without(listNet, i)
  /\ UNCHANGED << sessVars, cleanup, currentView, reloaded, loadTimers, rc, viewMode >>

\* The health check or GET /modules failed (no connection, or a non-success
\* status): catch shows the message; finally setLoading(false).
LoadFailed(i) ==
  /\ listNet[i].kind = "list" /\ listNet[i].stage \in {"health", "sent"}
  /\ notice' = "Failed to load modules"
  /\ loading' = FALSE
  /\ loads' = loads - 1
  /\ listNet' = Without(listNet, i)
  /\ UNCHANGED << sessVars, modules, cleanup, currentView, reloaded,
                  loadTimers, rc, viewMode >>

\* Popconfirm's onConfirm on a row of the table (the table is covered by its
\* spinner while loading): handleDeleteModule(record.id) up to its await.
HandleDeleteModule(id) ==
  /\ currentView = "table"
  /\ ~loading
  /\ id \in DisplayedIds
  /\ Len(listNet) < MaxLoads
  /\ listNet' = Append(listNet, [kind |-> "delete", id |-> id, stage |-> "sent",
                                 data |-> << >>, after |-> {}])
  /\ UNCHANGED << sessVars, modules, loading, loads, cleanup, currentView,
                  notice, reloaded, loadTimers, rc, viewMode >>

\* DELETE /modules/{id} succeeded: message.success; loadModules().
HandleDeleteOk(i) ==
  /\ listNet[i].kind = "delete"
  /\ listNet[i].id \in backend
  /\ backend' = backend \ {listNet[i].id}
  /\ notice' = "Module deleted successfully"
  /\ StartLoad(Without(listNet, i), DeletedIds \cup {listNet[i].id})
  /\ UNCHANGED << cfgVars, currentModuleId, closureModuleId, doc,
                  lastSavedContentRef, isSavingRef, manualSaveRef, saveStatus,
                  saveNo, acks, procs, net, calls, runStart, fate, lookup,
                  nextId, onSaveTimers, statusTimers, modules, cleanup, currentView,
                  reloaded, loadTimers, rc, viewMode >>

\* DELETE /modules/{id} failed (404 for a module already gone, or any other
\* failure): message.error, no reload.
HandleDeleteFailed(i) ==
  /\ listNet[i].kind = "delete"
  /\ notice' = "Failed to delete module"
  /\ listNet' = Without(listNet, i)
  /\ UNCHANGED << sessVars, modules, loading, loads, cleanup, currentView,
                  reloaded, loadTimers, rc, viewMode >>

\* The list view after App's first render, with modules 1..MaxRows stored.
InitList ==
  /\ hasApi = TRUE
  /\ hasUpdate = hasApi
  /\ client \in Clients
  /\ creator = FALSE
  /\ currentModuleId = NoId
  /\ closureModuleId = NoId
  /\ doc = DefaultJson
  /\ lastSavedContentRef = << >>
  /\ isSavingRef = FALSE
  /\ manualSaveRef = FALSE
  /\ saveStatus = ""
  /\ saveNo = 0
  /\ acks = [n \in 1..MaxSaves |-> << >>]
  /\ fate = [n \in 1..MaxSaves |-> "none"]
  /\ lookup = "none"
  /\ procs = {}
  /\ net = {}
  /\ calls = << >>
  /\ runStart = 0
  /\ backend = 1..MaxRows
  /\ nextId = MaxRows + 1
  /\ modules = << >>
  /\ loading = FALSE
  /\ loads = 0
  /\ cleanup = [pc |-> "idle"]
  /\ currentView = "table"
  /\ listNet = << >>
  /\ notice = ""
  /\ reloaded = {}
  /\ loadTimers = 0
  /\ viewMode = "edit"
  /\ hasOnSave = TRUE
  /\ listener = FALSE
  /\ onSaveTimers = 0
  /\ statusTimers = 0
  /\ rc = [op |-> "none"]

NextList ==
  \/ LoadModules
  \/ \E id \in 1..MaxRows : HandleDeleteModule(id)
  \/ \E i \in 1..Len(listNet) :
       \/ HealthOk(i)
       \/ ListServed(i)
       \/ LoadOk(i)
       \/ LoadFailed(i)
       \/ HandleDeleteOk(i)
       \/ HandleDeleteFailed(i)

SpecList == InitList /\ [][NextList]_vars

\* ---------------------------------------------------------------------------
\* Properties of the list view
\* ---------------------------------------------------------------------------

\* C11: once a delete has succeeded and a reload issued after it has been
\* displayed, the table never shows the deleted id again, whatever other
\* loadModules requests were outstanding.
C11_DeletedStaysGone == reloaded \cap DisplayedIds = {}

\* C18: the modules state changes only in a step that takes a successful list
\* response, to that response's body; a step in which a load or a delete fails
\* leaves it alone and shows the failure message; loading is false whenever no
\* load is outstanding (loads counts the outstanding list requests).
C18_FailuresKeepList ==
  /\ [][modules' # modules
          => \E i \in 1..Len(listNet) :
               /\ listNet[i].kind = "list" /\ listNet[i].stage = "answered"
               /\ modules' = listNet[i].data
               /\ listNet' = Without(listNet, i)]_vars
  /\ [][(\E i \in 1..Len(listNet) :
            listNet[i].stage # "answered" /\ listNet' = Without(listNet, i))
          => /\ modules' = modules
             /\ notice' \in {"Failed to load modules", "Failed to delete module"}
             /\ loads' = 0 => ~loading']_vars
  /\ [](loads = 0 => ~loading)
  /\ [](loads = Cardinality({i \in 1..Len(listNet) : listNet[i].kind = "list"}))

\* A load failed while the table showed modules, and the view is idle again
\* with those modules.
C18_Witness ==
  /\ notice = "Failed to load modules"
  /\ Len(modules) > 0
  /\ loads = 0 /\ ~loading
  /\ DeletedIds # {}

\* ---------------------------------------------------------------------------
\* App.jsx: the builder view as App wires it, navigation and teardown
\* ---------------------------------------------------------------------------

\* The "Back to Module List" button, onBack = handleBackToTable:
\* setCurrentView('table'), loadModules(); AddModule unmounts and its cleanup
\* effect removes the keydown handler.  The creator instance, its
\* saveSurveyFunc, the refs and the pending timers are not disposed of.
Back ==
  /\ currentView = "builder"
  /\ creator
  /\ currentView' = "table"
  /\ listener' = FALSE
  /\ viewMode' = "edit"
  /\ StartLoad(listNet, {})
  /\ UNCHANGED << hasApi, hasUpdate, client, creator, hasOnSave, currentModuleId,
                  closureModuleId, doc, lastSavedContentRef, isSavingRef,
                  manualSaveRef, saveStatus, saveNo, acks, procs, net, calls,
                  runStart, fate, lookup, backend, nextId, onSaveTimers, statusTimers,
                  modules, cleanup, notice, reloaded, loadTimers, rc >>

\* The timer of saveSurveyFunc fires: onSave(result) = handleSave, which shows
\* a message and sets a timer for loadModules; it does not change the view.
OnSaveTimer ==
  /\ onSaveTimers > 0
  /\ onSaveTimers' = onSaveTimers - 1
  /\ notice' = "Survey saved successfully!"
  /\ loadTimers' = loadTimers + 1
  /\ UNCHANGED << cfgVars, currentModuleId, closureModuleId, doc,
                  lastSavedContentRef, isSavingRef, manualSaveRef, saveStatus,
                  saveNo, acks, procs, net, calls, runStart, fate, lookup,
                  backend, nextId, statusTimers, modules, loading, loads,
                  cleanup, currentView, listNet, reloaded, rc, viewMode >>

\* A status timer of saveSurveyFunc fires: setSaveStatus('').  The timers are
\* never cancelled, neither by a later save nor by the unmount.
ClearStatus ==
  /\ statusTimers > 0
  /\ statusTimers' = statusTimers - 1
  /\ saveStatus' = ""
  /\ UNCHANGED << cfgVars, currentModuleId, closureModuleId, doc,
                  lastSavedContentRef, isSavingRef, manualSaveRef, saveNo,
                  acks, procs, net, calls, runStart, fate, lookup, backend,
                  nextId, onSaveTimers, listVars >>

\* The timer of handleSave fires: loadModules().
LoadTimer ==
  /\ loadTimers > 0
  /\ loadTimers' = loadTimers - 1
  /\ StartLoad(listNet, {})
  /\ UNCHANGED << sessVars, modules, cleanup, currentView, notice, reloaded,
                  rc, viewMode >>

\* The builder view right after AddModule's first render inside App: the
\* client is services/api.js, onSave is handleSave, onBack is
\* handleBackToTable.  A stored module is opened by handleEditModule or by
\* handleViewModule; viewMode is not among the props AddModule receives.
InitApp ==
  /\ hasApi = TRUE
  /\ hasUpdate = hasApi
  /\ client = "services_api"
  /\ hasOnSave = TRUE
  /\ creator = FALSE
  /\ listener = FALSE
  /\ currentModuleId \in {NoId, 1}
  /\ closureModuleId = NoId
  /\ doc \in Docs
  /\ lastSavedContentRef = << >>
  /\ isSavingRef = FALSE
  /\ manualSaveRef = FALSE
  /\ saveStatus = ""
  /\ saveNo = 0
  /\ acks = [n \in 1..MaxSaves |-> << >>]
  /\ fate = [n \in 1..MaxSaves |-> "none"]
  /\ lookup = "none"
  /\ procs = {}
  /\ net = {}
  /\ calls = << >>
  /\ runStart = 0
  /\ onSaveTimers = 0
  /\ statusTimers = 0
  /\ backend = IF currentModuleId = NoId THEN {} ELSE {currentModuleId}
  /\ nextId = IF currentModuleId = NoId THEN 1 ELSE 2
  /\ modules = << >>
  /\ loading = FALSE
  /\ loads = 0
  /\ cleanup = [pc |-> "idle"]
  /\ currentView = "builder"
  /\ listNet = << >>
  /\ notice = ""
  /\ reloaded = {}
  /\ loadTimers = 0
  /\ viewMode \in IF currentModuleId = NoId THEN {"edit"} ELSE {"edit", "view"}
  /\ rc = [op |-> "none"]

NextApp ==
  \/ Next
  \/ Back
  \/ OnSaveTimer
  \/ LoadTimer
  \/ ClearStatus

SpecApp == InitApp /\ [][NextApp]_vars

\* ---------------------------------------------------------------------------
\* Properties of navigation and teardown
\* ---------------------------------------------------------------------------

\* C12: when the onSave callback of a successful manual save runs, the
\* current view becomes the table and a reload of the list is started or
\* scheduled.
C12_SaveReturnsToTable ==
  [][onSaveTimers' < onSaveTimers
       => /\ currentView' = "table"
          /\ loads' > loads \/ loadTimers' > loadTimers]_vars

\* C13: onSave is scheduled only by the success of an attempt that a
\* manual-save gesture started, and when an attempt that a gesture started
\* finishes, with success or failure, the manual flag is false again.
C13_OnlyManualNavigates ==
  /\ [][onSaveTimers' > onSaveTimers
          => \E p \in procs : p \notin procs' /\ p.gesture]_vars
  /\ [][\A p \in procs : (p.gesture /\ p \notin procs') => ~manualSaveRef']_vars

\* C20: once the builder view is torn down the keydown handler stays
\* deregistered and the session issues no request any more.
C20_QuietAfterTeardown ==
  [][(creator /\ currentView = "table")
       => (~listener' /\ net' \subseteq net)]_vars

\* C27: while a persistence request of the session is in flight the status
\* on display is "Saving...".
C27_SavingWhileInFlight == isSavingRef => saveStatus = "Saving..."

\* A request that writes to the backend.
Writes(r) == r.method \in {"POST", "PUT", "DELETE"}

\* C29: while the builder is open in view mode no create, update or delete
\* request is issued.
C29_ViewModeReadOnly ==
  [][(viewMode = "view" /\ currentView = "builder")
       => \A r \in net' \ net : ~Writes(r)]_vars

\* ---------------------------------------------------------------------------
\* Resource Client: the survey document in the request bodies
\* ---------------------------------------------------------------------------

\* A member that is absent or undefined (JSON.stringify drops it).
NoDoc == << <<"undefined">> >>

\* createModule's built-in sample document.
SampleJson == << <<"pages", "page1">> >>

\* The surveyJson / form_data members of a caller's argument, of a stored
\* module, or of a request body, and its name member; the object spreads treat
\* id, description, status and createdAt as they treat name.
Fields ==
  [surveyJson : Docs \cup {NoDoc}, form_data : Docs \cup {NoDoc}, name : Names]

\* JavaScript truthiness of such a member: every object is truthy, {} too.
Truthy(d) == d # NoDoc

\* { ...base, ...over } on the two members.
Spread(base, over) ==
  [surveyJson |-> IF over.surveyJson # NoDoc THEN over.surveyJson
                                             ELSE base.surveyJson,
   form_data |-> IF over.form_data # NoDoc THEN over.form_data
                                           ELSE base.form_data,
   name |-> IF over.name # NoName THEN over.name ELSE base.name]

\* The body of createModule's POST.  Extended client: surveyJson:
\* moduleData.surveyJson || moduleData.form_data || sample, no form_data
\* member, name: moduleData.name || 'Untitled Survey'; services/api.js:
\* { ...moduleData, createdAt }.
CreateModuleBody(c, moduleData) ==
  IF c = "part_000"
    THEN [surveyJson |-> IF Truthy(moduleData.surveyJson) THEN moduleData.surveyJson
                         ELSE IF Truthy(moduleData.form_data) THEN moduleData.form_data
                         ELSE SampleJson,
          form_data |-> NoDoc,
          name |-> IF FalsyName(moduleData.name) THEN "Untitled Survey"
                                                 ELSE moduleData.name]
    ELSE moduleData

\* The body of updateModule's PUT.  Extended client: { ...existingModule,
\* ...moduleData, updatedAt }, then each member copied from the other one when
\* only the other one was supplied; services/api.js: { ...moduleData, updatedAt }.
UpdateModuleBody(c, existingModule, moduleData) ==
  IF c = "part_000"
    THEN LET updatePayload == Spread(existingModule, moduleData)
         IN [surveyJson |->
               IF Truthy(moduleData.form_data) /\ ~Truthy(moduleData.surveyJson)
                 THEN moduleData.form_data ELSE updatePayload.surveyJson,
             form_data |->
               IF Truthy(moduleData.surveyJson) /\ ~Truthy(moduleData.form_data)
                 THEN moduleData.surveyJson ELSE updatePayload.form_data,
             name |-> updatePayload.name]
    ELSE moduleData

\* createSurvey's argument to createModule: surveyJson: surveyData.surveyJson.
CreateSurveyData(surveyData) ==
  [surveyJson |-> surveyData.surveyJson, form_data |-> NoDoc,
   name |-> surveyData.name]

\* Mutant: updateSurvey hands the caller's object to updateModule as it is.
UpdateSurveyData_passed(c, existingModule, surveyData) == surveyData

\* updateSurvey's argument to updateModule.  Extended client: updateData, both
\* members set from surveyJson and then both from form_data, no other member;
\* services/api.js: { ...existingModule, surveyJson: surveyData.surveyJson }.
UpdateSurveyData(c, existingModule, surveyData) ==
  IF c = "part_000"
    THEN IF Truthy(surveyData.form_data)
           THEN [surveyJson |-> surveyData.form_data,
                 form_data |-> surveyData.form_data, name |-> NoName]
         ELSE IF Truthy(surveyData.surveyJson)
           THEN [surveyJson |-> surveyData.surveyJson,
                 form_data |-> surveyData.surveyJson, name |-> NoName]
         ELSE [surveyJson |-> NoDoc, form_data |-> NoDoc, name |-> NoName]
    ELSE [surveyJson |-> surveyData.surveyJson,
          form_data |-> existingModule.form_data,
          name |-> existingModule.name]

\* updateModule(id, moduleData) to the request that carries the document: the
\* PUT, or the POST of the extended client's fallback when the module is not
\* found; services/api.js sends the PUT without looking the module up.
UpdateModuleSends(c, found, existingModule, moduleData) ==
  IF c = "part_000" /\ ~found
    THEN [method |-> "POST",
          body |-> CreateModuleBody(c,
                     [moduleData EXCEPT
                        !.name = IF FalsyName(@) THEN "Survey id" ELSE @])]
    ELSE [method |-> "PUT", body |-> UpdateModuleBody(c, existingModule, moduleData)]

Sent(op, req) ==
  /\ rc.op = "none"
  /\ rc' = [rc EXCEPT !.op = op, !.method = req.method, !.body = req.body]
  /\ UNCHANGED << sessVars, modules, loading, loads, cleanup, currentView,
                  listNet, notice, reloaded, loadTimers, viewMode >>

\* apiService.createModule(moduleData)
CreateModule ==
  Sent("createModule", [method |-> "POST", body |-> CreateModuleBody(client, rc.data)])

\* apiService.updateModule(id, moduleData)
UpdateModule ==
  Sent("updateModule", UpdateModuleSends(client, rc.found, rc.existing, rc.data))

\* apiService.createSurvey(surveyData)
CreateSurvey ==
  Sent("createSurvey",
       [method |-> "POST", body |-> CreateModuleBody(client, CreateSurveyData(rc.data))])

\* apiService.updateSurvey(id, surveyData); services/api.js fails in getModule
\* and sends no document when the module is not found.
UpdateSurvey ==
  IF client = "services_api" /\ ~rc.found
    THEN Sent("updateSurvey", [method |-> "none", body |-> rc.data])
    ELSE Sent("updateSurvey",
              UpdateModuleSends(client, rc.found, rc.existing,
                                UpdateSurveyData(client, rc.existing, rc.data)))

\* A Resource Client about to be called with the argument rc.data, for a
\* module that the backend stores as rc.existing or does not store.
InitPayload ==
  /\ hasApi = TRUE
  /\ hasUpdate = hasApi
  /\ client \in Clients
  /\ creator = FALSE
  /\ currentModuleId = NoId
  /\ closureModuleId = NoId
  /\ doc = DefaultJson
  /\ lastSavedContentRef = << >>
  /\ isSavingRef = FALSE
  /\ manualSaveRef = FALSE
  /\ saveStatus = ""
  /\ saveNo = 0
  /\ acks = [n \in 1..MaxSaves |-> << >>]
  /\ fate = [n \in 1..MaxSaves |-> "none"]
  /\ lookup = "none"
  /\ procs = {}
  /\ net = {}
  /\ calls = << >>
  /\ runStart = 0
  /\ backend = {}
  /\ nextId = 1
  /\ modules = << >>
  /\ loading = FALSE
  /\ loads = 0
  /\ cleanup = [pc |-> "idle"]
  /\ currentView = "table"
  /\ listNet = << >>
  /\ notice = ""
  /\ reloaded = {}
  /\ loadTimers = 0
  /\ viewMode = "edit"
  /\ hasOnSave = FALSE
  /\ listener = FALSE
  /\ onSaveTimers = 0
  /\ statusTimers = 0
  /\ \E d, e \in Fields, f \in BOOLEAN :
       rc = [op |-> "none", data |-> d, existing |-> e, found |-> f,
             method |-> "none", body |-> d]

NextPayload ==
  \/ CreateModule
  \/ UpdateModule
  \/ CreateSurvey
  \/ UpdateSurvey

SpecPayload == InitPayload /\ [][NextPayload]_vars

\* C19: every request that carries the survey document has the surveyJson
\* member, and its form_data member, when present, holds the same document.
C19_AliasInSync ==
  (rc.op # "none" /\ rc.method # "none")
    => /\ rc.body.surveyJson # NoDoc
       /\ rc.body.form_data # NoDoc => rc.body.form_data = rc.body.surveyJson

\* C28: the PUT of updateSurvey carries the name (likewise id, description,
\* status and createdAt) of the record that was read from the backend,
\* whatever the caller's object holds besides the document.
C28_UpdateKeepsRecord ==
  (rc.op = "updateSurvey" /\ rc.method = "PUT")
    => rc.body.name = rc.existing.name

\* An update of the stored module "A" with another document, called with an
\* object that also holds another name.
C28_Witness ==
  /\ rc.op = "updateSurvey" /\ rc.method = "PUT"
  /\ rc.existing.name = "A" /\ rc.data.name = "Unnamed"
  /\ rc.body.name = "A"
  /\ rc.body.surveyJson # rc.existing.surveyJson

====
